---- MODULE Spec2Model ----
(***************************************************************************)
(* Model of the dotfiles installer: the stage orchestration engine         *)
(* (installer/stages.py, installer/config.py) and the dotfile manager      *)
(* (installer/dotfile_manager.py).                                         *)
(*                                                                         *)
(* The specifications of the module:                                        *)
(*   Spec          a run of the registered stages under one Config         *)
(*   SpecFS        a sequence of DotfileManager calls on a POSIX file      *)
(*                 system                                                  *)
(*   SpecConfig    the Config objects from_env and with_email produce      *)
(*   SpecDefaults  a run of stages declared with the decorator's defaults  *)
(*   SpecDM        DotfileManager calls, cleanup_path and backup_path      *)
(*                 included, on a system that may refuse an operation      *)
(*   SpecLog       stage bodies running inside indent_logger, one after    *)
(*                 another and nested                                      *)
(*   SpecModules   a run of stages.py with the Stage.__call__ of the older  *)
(*                 stage.py applied beside it to the same inputs           *)
(*   SpecPlatform  a run under a Config, with every call applied as well   *)
(*                 under the Config that differs in its platform only      *)
(*   SpecRegistry  declarations under colliding names and platform         *)
(*                 restrictions, clear(), and a run of what is registered  *)
(*   SpecDeps      declarations with dependencies, resolve_dependencies()  *)
(*                 and a run                                               *)
(***************************************************************************)
EXTENDS Naturals, Sequences, FiniteSets, TLC

VARIABLES
    stages,     \* _StageRegistry._stages: the registered Stage objects, in insertion order
    cfg,        \* the Config of the run (NoConfig until from_env has returned)
    derived,    \* the Config the last with_email call returned (NoConfig before it)
    proc,       \* the process: "declaring", "running", "config_error", "exit0", "exit1",
                \* "traceback" (ended by an exception nothing caught)
    pc,         \* the driver's position in its iteration over the registry
    calls,      \* per stage, what the mocks of a test would record of its call
    log,        \* the handlers of the logger that indent_logger works on, and the
                \* stage bodies that are running and that have ended
    twin,       \* a second run set beside the first one, on the same stages and
                \* with the same answers: its Config and the result of each call
    reg,        \* around the registry: what platform.system() returns, the Stage
                \* objects constructed so far, the calls of clear() and of
                \* resolve_dependencies() and the warnings the latter logged
    fs,         \* the file system: physical path -> node
    fs0,        \* the file system before the first DotfileManager call
    dests,      \* the final destination paths the DotfileManager calls have worked on
    prev,       \* the file system before the last DotfileManager call
    last,       \* the last DotfileManager call: its arguments and how it ended
    nops,       \* number of DotfileManager calls made so far
    dm,         \* the DotfileManager: its timestamp and its backup suffix
    faulty      \* the file operations the system refuses (EACCES, EROFS, ENOSPC)

stageVars == <<stages, cfg, derived, proc, pc, calls, reg, log, twin>>
fsVars == <<fs, fs0, dests, prev, last, nops, dm, faulty>>
vars == <<stages, cfg, derived, proc, pc, calls, reg, log, twin, fs, fs0, dests, prev, last, nops,
          dm, faulty>>

(***************************************************************************)
(* Bounds                                                                  *)
(***************************************************************************)
MaxStages == 2
MaxOps == 2
MaxDefaultStages == 3
MaxDeclared == 2
MaxBodies == 3
MaxNesting == 2

(***************************************************************************)
(* Stage names and flag names                                              *)
(***************************************************************************)
\* A name is a sequence of characters.
StageNames == << <<"A">>, <<"B">>, <<"C">>, <<"D">>, <<"E">> >>

\* str.lower() on the characters the stage names are made of
Lower(ch) ==
    CASE ch = "A" -> "a"
      [] ch = "B" -> "b"
      [] ch = "C" -> "c"
      [] ch = "D" -> "d"
      [] ch = "E" -> "e"
      [] OTHER -> ch

RECURSIVE FlagChars(_)
\* name.lower().replace(" ", "-").replace(".", "")
FlagChars(name) ==
    IF name = <<>> THEN <<>>
    ELSE LET c == Lower(Head(name))
             rest == FlagChars(Tail(name))
         IN  IF c = "." THEN rest
             ELSE IF c = " " THEN <<"-">> \o rest
             ELSE <<c>> \o rest

FlagName(name) == FlagChars(name)

\* The flag names a command line names: those of the first two stages.
Flags == {FlagName(StageNames[1]), FlagName(StageNames[2])}

\* The same for a run of stages declared with the decorator's defaults
DefaultFlags == {FlagName(StageNames[i]) : i \in 1..MaxDefaultStages}

\* The __name__ of the function the k-th declaration wraps
FuncNames == << <<"f", "a">>, <<"f", "b">>, <<"f", "c">>, <<"f", "d">>, <<"f", "e">> >>

\* Names that stage bodies' authors may give: they differ in case, in a dot, in a
\* space against a dash
DeclarableNames == { <<"A">>, <<"a", ".">>, <<"B", " ", "c">>, <<"b", "-", "c">> }

\* What platform.system() may return, and the restrictions a stage may declare
Systems == {"Linux", "Darwin"}
PlatformLists == { {}, {"Darwin"} }

\* The flag names a command line can name in a run of stages with such names
DeclarableFlags == {FlagName(n) : n \in DeclarableNames}

\* The flag names of the first stages declared with dependencies
DeclaredFlags == {FlagName(StageNames[i]) : i \in 1..MaxDeclared}

(***************************************************************************)
(* Stage                                                                   *)
(***************************************************************************)
NOT_EXECUTED == "not executed"
SUCCESS == "success"
FAILURE == "failure"
SKIPPED == "skipped"
Status == {NOT_EXECUTED, SUCCESS, FAILURE, SKIPPED}

\* A faulty variant: a new stage counts as skipped until it is executed
NewStage_Skipped(name, func_name, interactive_confirm, has_predicate, abort_on_error, platforms, dependencies) ==
    [ name |-> name,
      flag_name |-> FlagName(name),
      func_name |-> func_name,
      platforms |-> platforms,
      raw_dependencies |-> dependencies,
      resolved_dependencies |-> <<>>,
      interactive_confirm |-> interactive_confirm,
      has_predicate |-> has_predicate,
      abort_on_error |-> abort_on_error,
      status |-> SKIPPED ]

\* Stage.__init__ (platforms and dependencies: None is stored as the empty list)
NewStage(name, func_name, interactive_confirm, has_predicate, abort_on_error, platforms, dependencies) ==
    [ name |-> name,
      flag_name |-> FlagName(name),
      func_name |-> func_name,
      platforms |-> platforms,
      raw_dependencies |-> dependencies,
      resolved_dependencies |-> <<>>,
      interactive_confirm |-> interactive_confirm,
      has_predicate |-> has_predicate,
      abort_on_error |-> abort_on_error,
      status |-> NOT_EXECUTED ]

\* A logging.Handler: whether it has a Formatter, and the Formatter's _fmt
Handler(fmt) == [ formatter |-> TRUE, fmt |-> fmt ]
HandlerWithoutFormatter == [ formatter |-> FALSE, fmt |-> <<>> ]

\* The handlers configure_logging adds: "%(message)s" to stdout and
\* "%(levelname)s: %(message)s" to stderr
ConfiguredHandlers ==
    << Handler(<<"%", "(", "m", "e", "s", "s", "a", "g", "e", ")", "s">>),
       Handler(<<"%", "(", "l", "e", "v", "e", "l", "n", "a", "m", "e", ")", "s", ":", " ", "%", "(", "m", "e", "s", "s", "a", "g", "e", ")", "s">>) >>

\* The logger before a stage body has run, configure_logging not called on it
NoLog == [ handlers |-> <<>>, initial |-> <<>>, frames |-> <<>>, started |-> 0,
           finished |-> <<>>, nested |-> FALSE, exited |-> FALSE ]

\* The registry's surroundings before anything is declared, on Linux
NoReg == [ system |-> "Linux", declared |-> <<>>, clears |-> 0,
           resolves |-> 0, warnings |-> 0 ]

\* What a test's mocks record of one stage: invocations of the wrapped function,
\* of the predicate and of confirm(); whether the predicate returned False, the user
\* answered no, the function raised, and the class of what it raised; the number of
\* records the stage's logger got at level ERROR; and how the call s(cfg) ended
\* ("none": not called, "returned", "exited": sys.exit(1), "propagated": the
\* exception left the call).
NoCalls == [ func |-> 0, predicate |-> 0, confirm |-> 0,
             predicate_false |-> FALSE, declined |-> FALSE,
             raised |-> FALSE, error |-> "none", error_logs |-> 0,
             ended |-> "none" ]

(***************************************************************************)
(* Config                                                                  *)
(***************************************************************************)
None == "None"

\* The email addresses a command line or a stage may supply
Emails == {"me@example.org", "root@localhost"}

NoConfig == [ made |-> FALSE, email |-> None, confirm_all_stages |-> FALSE,
              skipped_stages |-> {}, only_stages |-> {} ]

\* A faulty variant: from_env accepts whatever lists it is given
FromEnvRaises_Never(skipped_stages, only_stages) == FALSE

\* Config.from_env: the guard that raises ValueError
FromEnvRaises(skipped_stages, only_stages) ==
    skipped_stages # {} /\ only_stages # {}

\* Config.from_env: the Config it returns (None is passed on as the empty list)
FromEnvConfig(email, skipped_stages, only_stages, confirm_all_stages) ==
    [ made |-> TRUE, email |-> email, confirm_all_stages |-> confirm_all_stages,
      skipped_stages |-> skipped_stages, only_stages |-> only_stages ]

\* Config.platform: the Config with this value in the field (the default is
\* platform.system(); dataclasses.replace or the constructor give any other)
WithPlatform(c, platform) ==
    [ made |-> c.made, email |-> c.email, confirm_all_stages |-> c.confirm_all_stages,
      skipped_stages |-> c.skipped_stages, only_stages |-> c.only_stages,
      platform |-> platform ]

\* No second run: no Config, no call
NoTwin == [ cfg |-> NoConfig, results |-> <<>> ]

\* A faulty variant: the email is assigned to the object itself, which is returned
with_email_InPlace(self, email) ==
    [ self |-> [self EXCEPT !.email = email],
      result |-> [self EXCEPT !.email = email] ]

\* Config.with_email: dataclasses.replace builds a new object from the fields of
\* self with email replaced; self, a frozen dataclass, is left as it is.
with_email(self, email) ==
    [ self |-> self,
      result |-> [ made |-> TRUE, email |-> email,
                   confirm_all_stages |-> self.confirm_all_stages,
                   skipped_stages |-> self.skipped_stages,
                   only_stages |-> self.only_stages ] ]

(***************************************************************************)
(* Exceptions                                                              *)
(***************************************************************************)
\* The base class of an exception class: ToolNotFoundError(RuntimeError) in
\* installer/tools.py, the others as built in
BaseOf(class) ==
    CASE class = "ToolNotFoundError" -> "RuntimeError"
      [] class = "RuntimeError" -> "Exception"
      [] class = "OSError" -> "Exception"
      [] class = "Exception" -> "BaseException"
      [] OTHER -> "object"

RECURSIVE IsSubclass(_, _)
IsSubclass(class, base) ==
    \/ class = base
    \/ class # "object" /\ IsSubclass(BaseOf(class), base)

\* What a wrapped function raises: a file-system failure out of the DotfileManager
\* (OSError), a missing tool out of which() (ToolNotFoundError)
Errors == {"OSError", "ToolNotFoundError"}

\* What a wrapped function does when it is invoked
Outcomes == {"return"} \cup Errors

(***************************************************************************)
(* Stage.__call__                                                          *)
(*   p: what the predicate returns if it is evaluated                      *)
(*   a: what confirm() returns if the user is asked                        *)
(*   o: what the wrapped function does if it is invoked: "return", or the  *)
(*      class of the exception it raises                                   *)
(***************************************************************************)
\* A faulty variant: the skip list is never consulted
SkippedByFlag_Ignored(s, c) == FALSE

\* A faulty variant: a stage is skipped as well when the platform of the Config is
\* not among its platforms
SkippedByFlag_OffPlatform(s, c) ==
    \/ s.flag_name \in c.skipped_stages
    \/ s.platforms # {} /\ c.platform \notin s.platforms

\* line 149: the stage is named in the skip list
SkippedByFlag(s, c) == s.flag_name \in c.skipped_stages

\* A faulty variant: the membership test of the only list is inverted
NotSelected_Inverted(s, c) == c.only_stages # {} /\ s.flag_name \in c.only_stages

\* line 153: an only list is given and does not name the stage
NotSelected(s, c) == c.only_stages # {} /\ s.flag_name \notin c.only_stages

\* A faulty variant: the predicate is evaluated whatever the lists said
PredicateEvaluated_Always(s, c) == s.has_predicate

\* line 157: the predicate is evaluated only when no list excluded the stage
PredicateEvaluated(s, c) ==
    ~(SkippedByFlag(s, c) \/ NotSelected(s, c)) /\ s.has_predicate

SkipAfterPredicate(s, c, p) ==
    SkippedByFlag(s, c) \/ NotSelected(s, c) \/ (PredicateEvaluated(s, c) /\ ~p)

\* A faulty variant: confirm_all_stages is not consulted
ConfirmAsked_Always(s, c, p) ==
    ~SkipAfterPredicate(s, c, p) /\ s.interactive_confirm

\* lines 161-166: confirm() is reached only through the three short-circuits
ConfirmAsked(s, c, p) ==
    ~SkipAfterPredicate(s, c, p) /\ ~c.confirm_all_stages /\ s.interactive_confirm

\* A faulty variant: the answer of the user is not taken into account
Skip_IgnoresAnswer(s, c, p, a) == SkipAfterPredicate(s, c, p)

\* line 169: the final value of the local variable skip
Skip(s, c, p, a) ==
    SkipAfterPredicate(s, c, p) \/ (ConfirmAsked(s, c, p) /\ ~a)

\* A faulty variant: the handler catches file-system errors only
Caught_OSErrorOnly(error) == IsSubclass(error, "OSError")

\* line 177: except Exception
Caught(error) == IsSubclass(error, "Exception")

\* A faulty variant: the except branch never calls sys.exit
OnError_NoExit(s) ==
    [ status |-> FAILURE, error_logs |-> 1, exits |-> FALSE ]

\* A faulty variant: the except branch does not record the failure in the status
OnError_KeepsStatus(s) ==
    [ status |-> s.status, error_logs |-> 1, exits |-> s.abort_on_error ]

\* lines 177-181: the except branch: the status, the error record, then the exit
OnError(s) ==
    [ status |-> FAILURE, error_logs |-> 1, exits |-> s.abort_on_error ]

\* A faulty variant: the else branch does not record the success in the status
OnSuccess_KeepsStatus(s) ==
    [ status |-> s.status, error_logs |-> 0, exits |-> FALSE ]

\* lines 182-184: the else branch
OnSuccess(s) ==
    [ status |-> SUCCESS, error_logs |-> 0, exits |-> FALSE ]

\* An exception no except clause matches leaves the call: nothing is assigned
Uncaught(s) ==
    [ status |-> s.status, error_logs |-> 0, exits |-> FALSE ]

\* A faulty variant: the function is invoked a second time after the try statement
BodyInvocations_Twice == 2

\* line 176: how often the body invokes the wrapped function
BodyInvocations == 1

\* The whole call: the status it leaves, what it invoked, whether it ended the process.
StageCall(s, c, p, a, o) ==
    LET pe == PredicateEvaluated(s, c)
        ca == ConfirmAsked(s, c, p)
        raised == o # "return"
        body == IF ~raised THEN OnSuccess(s)
                ELSE IF Caught(o) THEN OnError(s)
                ELSE Uncaught(s)
    IN  IF Skip(s, c, p, a)
        THEN [ status |-> SKIPPED, func |-> 0,
               predicate |-> IF pe THEN 1 ELSE 0, confirm |-> IF ca THEN 1 ELSE 0,
               predicate_false |-> (pe /\ ~p), declined |-> (ca /\ ~a),
               raised |-> FALSE, error |-> "none", error_logs |-> 0,
               exits |-> FALSE, propagates |-> FALSE ]
        ELSE [ status |-> body.status, func |-> BodyInvocations,
               predicate |-> IF pe THEN 1 ELSE 0, confirm |-> IF ca THEN 1 ELSE 0,
               predicate_false |-> (pe /\ ~p), declined |-> (ca /\ ~a),
               raised |-> raised, error |-> IF raised THEN o ELSE "none",
               error_logs |-> body.error_logs,
               exits |-> body.exits, propagates |-> (raised /\ ~Caught(o)) ]

(***************************************************************************)
(* Stage.__call__ of installer/stage.py                                    *)
(***************************************************************************)
\* lines 78-81: the two returns on the lists of the Config
Old_ListReturn(s, c) ==
    \/ s.flag_name \in c.skipped_stages
    \/ c.only_stages # {} /\ s.flag_name \notin c.only_stages

\* line 83: the predicate is reached and is not None
Old_PredicateEvaluated(s, c) == ~Old_ListReturn(s, c) /\ s.has_predicate

\* line 86: confirm() is reached through the two short-circuits
Old_ConfirmAsked(s, c, p) ==
    /\ ~Old_ListReturn(s, c)
    /\ ~(Old_PredicateEvaluated(s, c) /\ ~p)
    /\ ~c.confirm_all_stages
    /\ s.interactive_confirm

\* lines 78-87: one of the four returns is taken
Old_Return(s, c, p, a) ==
    \/ Old_ListReturn(s, c)
    \/ Old_PredicateEvaluated(s, c) /\ ~p
    \/ Old_ConfirmAsked(s, c, p) /\ ~a

\* The whole call of the older module.  The function is invoked inside the try
\* statement (line 92) and, unless the call has ended there, once more after it
\* (line 99), where no handler is around it.  The older Stage has no status.
OldStageCall(s, c, p, a, o) ==
    LET pe == Old_PredicateEvaluated(s, c)
        ca == Old_ConfirmAsked(s, c, p)
        raised == o # "return"
        caught == raised /\ IsSubclass(o, "Exception")
        exits == caught /\ s.abort_on_error
        escapes == raised /\ ~caught
        again == ~exits /\ ~escapes
    IN  IF Old_Return(s, c, p, a)
        THEN [ status |-> s.status, func |-> 0,
               predicate |-> IF pe THEN 1 ELSE 0, confirm |-> IF ca THEN 1 ELSE 0,
               predicate_false |-> (pe /\ ~p), declined |-> (ca /\ ~a),
               raised |-> FALSE, error |-> "none", error_logs |-> 0,
               exits |-> FALSE, propagates |-> FALSE ]
        ELSE [ status |-> s.status, func |-> IF again THEN 2 ELSE 1,
               predicate |-> IF pe THEN 1 ELSE 0, confirm |-> IF ca THEN 1 ELSE 0,
               predicate_false |-> (pe /\ ~p), declined |-> (ca /\ ~a),
               raised |-> raised, error |-> IF raised THEN o ELSE "none",
               error_logs |-> IF caught THEN 1 ELSE 0,
               exits |-> exits, propagates |-> (escapes \/ (again /\ raised)) ]

(***************************************************************************)
(* Actions of a run                                                        *)
(***************************************************************************)
\* A faulty variant: the platforms of a stage are not looked at
is_valid_for_current_platform_Always(stage) == TRUE

\* Stage.is_valid_for_current_platform
is_valid_for_current_platform(stage) ==
    stage.platforms = {} \/ reg.system \in stage.platforms

\* The position a flag name has among the keys of the registry, 0 if it has none
KeyIndex(registry, flag_name) ==
    IF \E i \in 1..Len(registry) : registry[i].flag_name = flag_name
    THEN CHOOSE i \in 1..Len(registry) : registry[i].flag_name = flag_name
    ELSE 0

\* A faulty variant: the new stage is put in front of the registered ones
register_InFront(registry, stage) == <<stage>> \o registry

\* _StageRegistry.register: a stage that is not for this platform is dropped; the
\* others are assigned to their flag name in a dict, which keeps its keys in
\* insertion order and an assigned key where it is
register(registry, stage) ==
    IF ~is_valid_for_current_platform(stage) THEN registry
    ELSE IF KeyIndex(registry, stage.flag_name) # 0
         THEN [registry EXCEPT ![KeyIndex(registry, stage.flag_name)] = stage]
         ELSE Append(registry, stage)

\* stage(...)(func): the decorator constructs the Stage and registers it
Declare(s) ==
    /\ stages' = register(stages, s)
    /\ calls' = IF Len(stages') > Len(stages) THEN Append(calls, NoCalls) ELSE calls
    /\ reg' = [reg EXCEPT !.declared = Append(@, s)]

\* stage(...)(func): construct the Stage and register it under its flag name
Register(interactive_confirm, has_predicate, abort_on_error) ==
    /\ proc = "declaring"
    /\ Len(stages) < MaxStages
    /\ Declare(NewStage(StageNames[Len(stages) + 1], FuncNames[Len(stages) + 1],
                        interactive_confirm, has_predicate, abort_on_error, {}, <<>>))
    /\ UNCHANGED <<cfg, derived, proc, pc, log, twin, fsVars>>

\* Config.from_env raises ValueError: the run ends before any stage is called
FromEnvError(skipped_stages, only_stages) ==
    /\ proc = "declaring"
    /\ FromEnvRaises(skipped_stages, only_stages)
    /\ proc' = "config_error"
    /\ UNCHANGED <<stages, cfg, derived, pc, calls, reg, log, twin, fsVars>>

\* Config.from_env returns: the driver starts iterating the registry
FromEnv(email, skipped_stages, only_stages, confirm_all_stages) ==
    /\ proc = "declaring"
    /\ ~FromEnvRaises(skipped_stages, only_stages)
    /\ cfg' = FromEnvConfig(email, skipped_stages, only_stages, confirm_all_stages)
    /\ proc' = "running"
    /\ pc' = 1
    /\ UNCHANGED <<stages, derived, calls, reg, log, twin, fsVars>>

\* The driver calls the next stage of the registry with the Config
RunStage(p, a, o) ==
    /\ proc = "running"
    /\ pc <= Len(stages)
    /\ LET r == StageCall(stages[pc], cfg, p, a, o)
       IN  /\ stages' = [stages EXCEPT ![pc].status = r.status]
           /\ calls' = [calls EXCEPT ![pc] =
                  [ func |-> @.func + r.func,
                    predicate |-> @.predicate + r.predicate,
                    confirm |-> @.confirm + r.confirm,
                    predicate_false |-> r.predicate_false,
                    declined |-> r.declined,
                    raised |-> r.raised,
                    error |-> r.error,
                    error_logs |-> @.error_logs + r.error_logs,
                    ended |-> IF r.exits THEN "exited"
                              ELSE IF r.propagates THEN "propagated"
                              ELSE "returned" ]]
           /\ proc' = IF r.exits THEN "exit1"
                      ELSE IF r.propagates THEN "traceback"
                      ELSE proc
           /\ pc' = IF r.exits \/ r.propagates THEN pc ELSE pc + 1
    /\ UNCHANGED <<cfg, derived, reg, log, twin, fsVars>>

\* The iteration is exhausted: the process ends normally
Finish ==
    /\ proc = "running"
    /\ pc > Len(stages)
    /\ proc' = "exit0"
    /\ UNCHANGED <<stages, cfg, derived, pc, calls, reg, log, twin, fsVars>>

(***************************************************************************)
(* The DotfileManager of a run                                             *)
(***************************************************************************)
\* The timestamps of two runs: one with one-digit fields, one with two-digit ones
Timestamps ==
    { [ year |-> 2026, month |-> 1, day |-> 5, hour |-> 3, minute |-> 4, second |-> 9 ],
      [ year |-> 2025, month |-> 12, day |-> 31, hour |-> 23, minute |-> 59, second |-> 58 ] }

\* The timestamp of the runs in which it plays no part
Timestamp0 == [ year |-> 2026, month |-> 1, day |-> 5, hour |-> 3, minute |-> 4, second |-> 9 ]

Digit(d) == <<"0", "1", "2", "3", "4", "5", "6", "7", "8", "9">>[d + 1]

\* A number in decimal, without leading zeros
RECURSIVE Decimal(_)
Decimal(n) == IF n < 10 THEN <<Digit(n)>> ELSE Append(Decimal(n \div 10), Digit(n % 10))

\* A number in decimal, with zeros in front up to a width (%m, %d, %H, %M, %S: 2;
\* %Y of a datetime.now(): 4)
RECURSIVE Padded(_, _)
Padded(n, width) ==
    IF width = 0 THEN <<>> ELSE Append(Padded(n \div 10, width - 1), Digit(n % 10))

\* A faulty variant: the fields are formatted without leading zeros
strftime_Unpadded(timestamp) ==
    Decimal(timestamp.year) \o <<"-">> \o Decimal(timestamp.month) \o <<"-">>
        \o Decimal(timestamp.day) \o <<"_">> \o Decimal(timestamp.hour) \o <<"-">>
        \o Decimal(timestamp.minute) \o <<"-">> \o Decimal(timestamp.second)

\* timestamp.strftime('%Y-%m-%d_%H-%M-%S')
strftime(timestamp) ==
    Padded(timestamp.year, 4) \o <<"-">> \o Padded(timestamp.month, 2) \o <<"-">>
        \o Padded(timestamp.day, 2) \o <<"_">> \o Padded(timestamp.hour, 2) \o <<"-">>
        \o Padded(timestamp.minute, 2) \o <<"-">> \o Padded(timestamp.second, 2)

\* DotfileManager.__init__: ".pre-dotfiles-installer-" and the formatted timestamp
BackupSuffix(timestamp) == <<".pre-dotfiles-installer-">> \o strftime(timestamp)

\* DotfileManager(timestamp, logger)
NewManager(timestamp) ==
    [ timestamp |-> timestamp, backup_suffix |-> BackupSuffix(timestamp) ]

FsIdle ==
    /\ fs = <<>> /\ fs0 = <<>> /\ dests = {} /\ prev = <<>>
    /\ last = <<>> /\ nops = 0
    /\ dm = NewManager(Timestamp0) /\ faulty = {}

Init ==
    /\ stages = <<>>
    /\ cfg = NoConfig
    /\ derived = NoConfig
    /\ proc = "declaring"
    /\ pc = 0
    /\ calls = <<>>
    /\ reg = NoReg
    /\ log = NoLog
    /\ twin = NoTwin
    /\ FsIdle

Next ==
    \/ \E ic, hp, ab \in BOOLEAN : Register(ic, hp, ab)
    \/ \E sk, on \in SUBSET Flags : FromEnvError(sk, on)
    \/ \E sk, on \in SUBSET Flags, ca \in BOOLEAN : FromEnv(None, sk, on, ca)
    \/ \E p, a \in BOOLEAN, o \in Outcomes : RunStage(p, a, o)
    \/ Finish

Spec == Init /\ [][Next]_vars

(***************************************************************************)
(* The Config objects of a run (SpecConfig)                                *)
(***************************************************************************)
\* cfg.with_email(email), by the driver or a stage that has resolved the address
WithEmail(email) ==
    /\ proc = "running"
    /\ LET r == with_email(cfg, email)
       IN  /\ cfg' = r.self
           /\ derived' = r.result
    /\ UNCHANGED <<stages, proc, pc, calls, reg, log, twin, fsVars>>

NextConfig ==
    \/ \E sk, on \in SUBSET Flags : FromEnvError(sk, on)
    \/ \E em \in {None} \cup Emails, sk, on \in SUBSET Flags, ca \in BOOLEAN :
           FromEnv(em, sk, on, ca)
    \/ \E em \in Emails : WithEmail(em)

SpecConfig == Init /\ [][NextConfig]_vars

(***************************************************************************)
(* A run of stages declared with the decorator's defaults (SpecDefaults)   *)
(***************************************************************************)
\* stage(name)(func): interactive_confirm=False, predicate=None, abort_on_error=False
RegisterDefault ==
    /\ proc = "declaring"
    /\ Len(stages) < MaxDefaultStages
    /\ Declare(NewStage(StageNames[Len(stages) + 1], FuncNames[Len(stages) + 1],
                        FALSE, FALSE, FALSE, {}, <<>>))
    /\ UNCHANGED <<cfg, derived, proc, pc, log, twin, fsVars>>

NextDefaults ==
    \/ RegisterDefault
    \/ \E sk, on \in SUBSET DefaultFlags : FromEnvError(sk, on)
    \/ \E sk, on \in SUBSET DefaultFlags, ca \in BOOLEAN : FromEnv(None, sk, on, ca)
    \/ \E p, a \in BOOLEAN, o \in Outcomes : RunStage(p, a, o)
    \/ Finish

SpecDefaults == Init /\ [][NextDefaults]_vars

(***************************************************************************)
(* Stage bodies inside indent_logger (SpecLog)                             *)
(***************************************************************************)

\* indent_logger's default indent: two spaces
Indent == <<" ", " ">>

\* The test of lines 35 and 41: the handler has a formatter with a format
HasFormat(handler) == handler.formatter /\ handler.fmt # <<>>

\* indent_logger before the yield: every handler with a format gets a new
\* Formatter of indent + format
indent_logger_enter(handlers) ==
    [h \in DOMAIN handlers |->
        IF HasFormat(handlers[h]) THEN Handler(Indent \o handlers[h].fmt)
        ELSE handlers[h]]

\* The loop of the finally block: every handler with a format gets a new Formatter
\* of format[len(indent):]
Unindent(handlers) ==
    [h \in DOMAIN handlers |->
        IF HasFormat(handlers[h])
        THEN Handler(SubSeq(handlers[h].fmt, Len(Indent) + 1, Len(handlers[h].fmt)))
        ELSE handlers[h]]

\* A faulty variant: the formats are put back only when the body returns
indent_logger_finally_OnReturnOnly(handlers, outcome) ==
    IF outcome = "return" THEN Unindent(handlers) ELSE handlers

\* indent_logger after the yield: try/finally, so for every way the body ends
indent_logger_finally(handlers, outcome) == Unindent(handlers)

\* SystemExit, raised by sys.exit(1), leaves every enclosing body through its
\* finally block
RECURSIVE Unwind(_, _)
Unwind(handlers, depth) ==
    IF depth = 0 THEN handlers
    ELSE Unwind(indent_logger_finally(handlers, "SystemExit"), depth - 1)

\* The logger indent_logger is given, with or without the handlers of
\* configure_logging, or with one more handler that has no formatter
InitLog ==
    /\ stages = <<>> /\ cfg = NoConfig /\ derived = NoConfig
    /\ proc = "declaring" /\ pc = 0 /\ calls = <<>> /\ reg = NoReg
    /\ \E hs \in {<<>>, ConfiguredHandlers, Append(ConfiguredHandlers, HandlerWithoutFormatter)} :
           log = [NoLog EXCEPT !.handlers = hs, !.initial = hs]
    /\ twin = NoTwin
    /\ FsIdle

\* Stage.__call__ enters "with indent_logger(_logger)", at top level or from the
\* body of another stage
EnterBody ==
    /\ ~log.exited
    /\ log.started < MaxBodies
    /\ Len(log.frames) < MaxNesting
    /\ log' = [log EXCEPT !.handlers = indent_logger_enter(@),
                          !.frames = Append(@, log.handlers),
                          !.started = @ + 1,
                          !.nested = @ \/ log.frames # <<>>]
    /\ UNCHANGED <<stages, cfg, derived, proc, pc, calls, reg, twin, fsVars>>

\* The innermost body returns, or raises and the stage does not abort on error
LeaveBody(outcome) ==
    /\ ~log.exited
    /\ log.frames # <<>>
    /\ log' = [log EXCEPT !.handlers = indent_logger_finally(@, outcome),
                          !.frames = SubSeq(@, 1, Len(@) - 1),
                          !.finished = Append(@, outcome)]
    /\ UNCHANGED <<stages, cfg, derived, proc, pc, calls, reg, twin, fsVars>>

\* The innermost body raises and the stage aborts on error: the with block is
\* left, the error is logged and sys.exit(1) ends the enclosing bodies and the
\* process
AbortBody(error) ==
    /\ ~log.exited
    /\ log.frames # <<>>
    /\ log' = [log EXCEPT !.handlers = Unwind(indent_logger_finally(@, error),
                                              Len(log.frames) - 1),
                          !.frames = <<>>,
                          !.finished = Append(@, error),
                          !.exited = TRUE]
    /\ UNCHANGED <<stages, cfg, derived, proc, pc, calls, reg, twin, fsVars>>

NextLog ==
    \/ EnterBody
    \/ \E o \in Outcomes : LeaveBody(o)
    \/ \E e \in Errors : AbortBody(e)

SpecLog == InitLog /\ [][NextLog]_vars

(***************************************************************************)
(* Two runs side by side                                                   *)
(***************************************************************************)

\* What the driver and the mocks keep of the call of the next stage that had the
\* result r
Driven(r) ==
    /\ stages' = [stages EXCEPT ![pc].status = r.status]
    /\ calls' = [calls EXCEPT ![pc] =
           [ func |-> @.func + r.func,
             predicate |-> @.predicate + r.predicate,
             confirm |-> @.confirm + r.confirm,
             predicate_false |-> r.predicate_false,
             declined |-> r.declined,
             raised |-> r.raised,
             error |-> r.error,
             error_logs |-> @.error_logs + r.error_logs,
             ended |-> IF r.exits THEN "exited"
                       ELSE IF r.propagates THEN "propagated"
                       ELSE "returned" ]]
    /\ proc' = IF r.exits THEN "exit1"
               ELSE IF r.propagates THEN "traceback"
               ELSE proc
    /\ pc' = IF r.exits \/ r.propagates THEN pc ELSE pc + 1

\* The driver calls the next stage; the Stage.__call__ of installer/stage.py is
\* applied to the same stage policy and Config, with the same predicate value,
\* the same answer and the same behaviour of the function
RunInBothModules(p, a, o) ==
    /\ proc = "running"
    /\ pc <= Len(stages)
    /\ Driven(StageCall(stages[pc], cfg, p, a, o))
    /\ twin' = [twin EXCEPT !.cfg = cfg,
                            !.results = Append(@, OldStageCall(stages[pc], cfg, p, a, o))]
    /\ UNCHANGED <<cfg, derived, reg, log, fsVars>>

NextModules ==
    \/ \E ic, hp, ab \in BOOLEAN : Register(ic, hp, ab)
    \/ \E sk, on \in SUBSET Flags : FromEnvError(sk, on)
    \/ \E sk, on \in SUBSET Flags, ca \in BOOLEAN : FromEnv(None, sk, on, ca)
    \/ \E p, a \in BOOLEAN, o \in Outcomes : RunInBothModules(p, a, o)
    \/ Finish

SpecModules == Init /\ [][NextModules]_vars

(***************************************************************************)
(* Declarations under any name and platform restriction                   *)
(***************************************************************************)

\* The process starts on one of the platforms
InitRegistry ==
    /\ stages = <<>>
    /\ cfg = NoConfig
    /\ derived = NoConfig
    /\ proc = "declaring" /\ pc = 0 /\ calls = <<>>
    /\ reg \in {[NoReg EXCEPT !.system = sys] : sys \in Systems}
    /\ log = NoLog
    /\ twin = NoTwin
    /\ FsIdle

\* stage(name, platforms=platforms)(func)
RegisterNamed(name, platforms) ==
    /\ proc = "declaring"
    /\ Len(reg.declared) < MaxDeclared
    /\ Declare(NewStage(name, FuncNames[Len(reg.declared) + 1],
                        FALSE, FALSE, FALSE, platforms, <<>>))
    /\ UNCHANGED <<cfg, derived, proc, pc, log, twin, fsVars>>

\* _StageRegistry.clear(), which the tests may call between declarations
Clear ==
    /\ proc = "declaring"
    /\ reg.clears < Len(reg.declared)
    /\ stages' = <<>>
    /\ calls' = <<>>
    /\ reg' = [reg EXCEPT !.clears = @ + 1]
    /\ UNCHANGED <<cfg, derived, proc, pc, log, twin, fsVars>>

NextRegistry ==
    \/ \E name \in DeclarableNames, platforms \in PlatformLists :
           RegisterNamed(name, platforms)
    \/ Clear
    \/ \E sk \in SUBSET DeclarableFlags : FromEnv(None, sk, {}, FALSE)
    \/ \E o \in Outcomes : RunStage(TRUE, TRUE, o)
    \/ Finish

SpecRegistry == InitRegistry /\ [][NextRegistry]_vars

(***************************************************************************)
(* A run under two Configs that differ in platform (SpecPlatform)          *)
(***************************************************************************)

\* stage(name, interactive_confirm, predicate, platforms=platforms)(func)
RegisterFor(interactive_confirm, has_predicate, platforms) ==
    /\ proc = "declaring"
    /\ Len(reg.declared) < MaxDeclared
    /\ Declare(NewStage(StageNames[Len(reg.declared) + 1], FuncNames[Len(reg.declared) + 1],
                        interactive_confirm, has_predicate, FALSE, platforms, <<>>))
    /\ UNCHANGED <<cfg, derived, proc, pc, log, twin, fsVars>>

\* Config.from_env returns the Config of this host; beside it stands the Config
\* that has another value in the platform field and is equal in every other one
FromEnvOnPlatforms(skipped_stages, confirm_all_stages, platform) ==
    /\ proc = "declaring"
    /\ ~FromEnvRaises(skipped_stages, {})
    /\ LET c == FromEnvConfig(None, skipped_stages, {}, confirm_all_stages)
       IN  /\ cfg' = WithPlatform(c, reg.system)
           /\ twin' = [twin EXCEPT !.cfg = WithPlatform(c, platform)]
    /\ proc' = "running"
    /\ pc' = 1
    /\ UNCHANGED <<stages, derived, calls, reg, log, fsVars>>

\* The driver calls the next stage with the Config; the same call is made with the
\* other Config, with the same predicate value, answer and behaviour of the
\* function
RunOnBothPlatforms(p, a, o) ==
    /\ proc = "running"
    /\ pc <= Len(stages)
    /\ Driven(StageCall(stages[pc], cfg, p, a, o))
    /\ twin' = [twin EXCEPT !.results = Append(@, StageCall(stages[pc], twin.cfg, p, a, o))]
    /\ UNCHANGED <<cfg, derived, reg, log, fsVars>>

NextPlatform ==
    \/ \E ic, hp \in BOOLEAN, platforms \in PlatformLists : RegisterFor(ic, hp, platforms)
    \/ \E sk \in SUBSET Flags, ca \in BOOLEAN, platform \in Systems :
           FromEnvOnPlatforms(sk, ca, platform)
    \/ \E p, a \in BOOLEAN, o \in Outcomes : RunOnBothPlatforms(p, a, o)
    \/ Finish

SpecPlatform == InitRegistry /\ [][NextPlatform]_vars

(***************************************************************************)
(* Dependencies                                                            *)
(*                                                                         *)
(* A dependency entry, a key of a dict and the loop variable are values of *)
(* some Python type: [type, value].  A Stage object is written by its name *)
(* (the stages of SpecDeps are declared under distinct names).             *)
(***************************************************************************)

Str(chars) == [type |-> "str", value |-> chars]
StageObj(name) == [type |-> "Stage", value |-> name]

\* The entries a declaration may list: the flag name of the first stage, the name
\* of the function it wraps, a string that names nothing, the first Stage itself
DependencyEntries ==
    { Str(FlagName(StageNames[1])), Str(FuncNames[1]), Str(<<"z">>),
      StageObj(StageNames[1]) }

DependencyLists ==
    {<<>>} \cup {<<e>> : e \in DependencyEntries}
           \cup { <<Str(<<"z">>), StageObj(StageNames[1])>>,
                  <<Str(FlagName(StageNames[1])), Str(FuncNames[1])>> }

\* enumerate(seq): the pairs (index, item), indices from 0
enumerate(seq) ==
    [i \in DOMAIN seq |-> [type |-> "tuple", value |-> <<i - 1, seq[i]>>]]

\* stage_map.get(dep): the position of the stage registered under the key, 0 for
\* None
stage_map_get(stage_map, dep) ==
    IF dep.type = "str" THEN KeyIndex(stage_map, dep.value) ELSE 0

\* A key of func_name_map: stage.func_name is a method and is not called, so the
\* key is the bound method of that stage
FuncNameKey(stage) == [type |-> "method", value |-> stage.name]

\* func_name_map.get(dep)
func_name_map_get(stage_map, dep) ==
    IF \E i \in 1..Len(stage_map) : FuncNameKey(stage_map[i]) = dep
    THEN CHOOSE i \in 1..Len(stage_map) : FuncNameKey(stage_map[i]) = dep
    ELSE 0

\* One round of the loop of Stage.resolve_dependencies: what it appends and how
\* many warnings it logs.  The warning of the str branch follows the append
\* without an else.
ResolveEntry(stage_map, dep) ==
    IF dep.type = "str"
    THEN LET i == stage_map_get(stage_map, dep)
             j == IF i # 0 THEN i ELSE func_name_map_get(stage_map, dep)
         IN  [ resolved |-> IF j # 0 THEN <<stage_map[j].name>> ELSE <<>>,
               warnings |-> 1 ]
    ELSE IF dep.type = "Stage"
    THEN [ resolved |-> <<dep.value>>, warnings |-> 0 ]
    ELSE [ resolved |-> <<>>, warnings |-> 1 ]

RECURSIVE ResolveEntries(_, _)
ResolveEntries(stage_map, deps) ==
    IF deps = <<>> THEN [ resolved |-> <<>>, warnings |-> 0 ]
    ELSE LET h == ResolveEntry(stage_map, Head(deps))
             t == ResolveEntries(stage_map, Tail(deps))
         IN  [ resolved |-> h.resolved \o t.resolved,
               warnings |-> h.warnings + t.warnings ]

\* A faulty variant: a stage with dependencies is held back
Stage_resolve_dependencies_Gates(self, stage_map) ==
    [self EXCEPT !.resolved_dependencies =
                     @ \o ResolveEntries(stage_map, enumerate(self.raw_dependencies)).resolved,
                 !.status = IF self.raw_dependencies # <<>> THEN SKIPPED ELSE @]

\* Stage.resolve_dependencies: the loop runs over enumerate(self._raw_dependencies)
Stage_resolve_dependencies(self, stage_map) ==
    [self EXCEPT !.resolved_dependencies =
                     @ \o ResolveEntries(stage_map, enumerate(self.raw_dependencies)).resolved]

\* The warnings Stage.resolve_dependencies logs for the stages from the n-th on
RECURSIVE ResolveWarnings(_, _)
ResolveWarnings(stage_map, n) ==
    IF n > Len(stage_map) THEN 0
    ELSE ResolveEntries(stage_map, enumerate(stage_map[n].raw_dependencies)).warnings
             + ResolveWarnings(stage_map, n + 1)

\* _StageRegistry.resolve_dependencies
resolve_dependencies(registry) ==
    [i \in DOMAIN registry |-> Stage_resolve_dependencies(registry[i], registry)]

\* stage(name, dependencies=dependencies)(func); a Stage in the list was returned
\* by an earlier declaration
RegisterDependent(dependencies) ==
    /\ proc = "declaring"
    /\ Len(reg.declared) < MaxDeclared
    /\ \A k \in DOMAIN dependencies :
           dependencies[k].type = "Stage" =>
               \E d \in DOMAIN reg.declared : reg.declared[d].name = dependencies[k].value
    /\ Declare(NewStage(StageNames[Len(reg.declared) + 1], FuncNames[Len(reg.declared) + 1],
                        FALSE, FALSE, FALSE, {}, dependencies))
    /\ UNCHANGED <<cfg, derived, proc, pc, log, twin, fsVars>>

\* STAGE_REGISTRY.resolve_dependencies(), once, before or between the stages
ResolveDependencies ==
    /\ proc \in {"declaring", "running"}
    /\ reg.resolves = 0
    /\ stages' = resolve_dependencies(stages)
    /\ reg' = [reg EXCEPT !.resolves = @ + 1,
                          !.warnings = @ + ResolveWarnings(stages, 1)]
    /\ UNCHANGED <<cfg, derived, proc, pc, calls, log, twin, fsVars>>

NextDeps ==
    \/ \E dependencies \in DependencyLists : RegisterDependent(dependencies)
    \/ ResolveDependencies
    \/ \E sk \in SUBSET DeclaredFlags : FromEnv(None, sk, {}, FALSE)
    \/ \E o \in Outcomes : RunStage(TRUE, TRUE, o)
    \/ Finish

SpecDeps == Init /\ [][NextDeps]_vars

(***************************************************************************)
(* The file system (POSIX, as pathlib sees it)                             *)
(*                                                                         *)
(* A name is a sequence of tokens, a path a sequence of names below one    *)
(* root directory.  fs maps the physical paths that exist to their nodes:  *)
(* a regular file with its bytes, a directory, or a symbolic link with the *)
(* path it was given as target.  Paths are absolute, as the resolved paths  *)
(* of the tests' fixtures are.                                             *)
(***************************************************************************)
Foo == <<"foo">>
Bar == <<"bar">>
Baz == <<"baz">>

CR == "CR"
LF == "LF"

Root == <<>>
\* The result of a path lookup that fails (ENOENT, ENOTDIR, ELOOP): no real path
\* has an empty name.
Nowhere == << <<>> >>

Absent == [ kind |-> "absent" ]
File(content) == [ kind |-> "file", content |-> content ]
Dir == [ kind |-> "dir" ]
Link(target) == [ kind |-> "link", target |-> target ]

Front(path) == SubSeq(path, 1, Len(path) - 1)
LastOf(path) == path[Len(path)]

Lookup(f, q) ==
    IF q = Root THEN Dir
    ELSE IF q \in DOMAIN f THEN f[q] ELSE Absent

RECURSIVE Follow(_, _, _), Locate(_, _, _)
\* Where the entry a path names lives, its last component not followed: the
\* parent is resolved through every symbolic link and has to be a directory.
Locate(f, path, fuel) ==
    IF path = Root THEN Root
    ELSE LET parent == Follow(f, Front(path), fuel)
         IN  IF parent = Nowhere \/ Lookup(f, parent).kind # "dir" THEN Nowhere
             ELSE Append(parent, LastOf(path))

\* Where a path leads with every symbolic link followed, the last one included.
Follow(f, path, fuel) ==
    LET q == Locate(f, path, fuel)
    IN  IF q = Nowhere THEN Nowhere
        ELSE IF Lookup(f, q).kind = "link"
             THEN IF fuel = 0 THEN Nowhere
                  ELSE Follow(f, Lookup(f, q).target, fuel - 1)
             ELSE q

\* A chain of more links than the file system holds entries is a loop.
Fuel(f) == Cardinality(DOMAIN f)

\* os.lstat: the physical path of the entry itself
LPath(f, path) == Locate(f, path, Fuel(f))
\* os.stat / Path.resolve: the physical path after following symbolic links
Resolve(f, path) == Follow(f, path, Fuel(f))

\* Path.is_dir, Path.is_file (both follow symbolic links), Path.is_symlink
IsDir(f, path) ==
    LET q == Resolve(f, path) IN q # Nowhere /\ Lookup(f, q).kind = "dir"
IsFile(f, path) ==
    LET q == Resolve(f, path) IN q # Nowhere /\ Lookup(f, q).kind = "file"
IsSymlink(f, path) ==
    LET q == LPath(f, path) IN q # Nowhere /\ Lookup(f, q).kind = "link"

Without(f, q) == [ x \in DOMAIN f \ {q} |-> f[x] ]
With(f, q, node) == [ x \in DOMAIN f \cup {q} |-> IF x = q THEN node ELSE f[x] ]

\* The file operations of the manager; each raises OSError when the system refuses
\* it
Prims == {"unlink", "rename", "symlink", "write"}

\* Path.unlink: removes the entry itself; fails on a missing entry or a directory
Unlink(f, path) ==
    LET q == LPath(f, path)
    IN  IF "unlink" \in faulty \/ q = Nowhere \/ Lookup(f, q).kind \in {"absent", "dir"}
        THEN [ ok |-> FALSE, fs |-> f ]
        ELSE [ ok |-> TRUE, fs |-> Without(f, q) ]

\* Path.rename (rename(2)) of an entry that is not a directory: neither path is
\* followed; an existing file or link at the target is replaced silently, a
\* directory at the target makes it fail.  The manager renames regular files only.
Rename(f, path, target) ==
    LET q == LPath(f, path)
        r == LPath(f, target)
    IN  IF \/ "rename" \in faulty
           \/ q = Nowhere \/ r = Nowhere
           \/ Lookup(f, q).kind \in {"absent", "dir"}
           \/ Lookup(f, r).kind = "dir"
        THEN [ ok |-> FALSE, fs |-> f ]
        ELSE IF q = r THEN [ ok |-> TRUE, fs |-> f ]
        ELSE [ ok |-> TRUE, fs |-> With(Without(f, q), r, Lookup(f, q)) ]

\* Path.symlink_to: fails when anything exists at the path (FileExistsError) or the
\* parent is no directory
SymlinkTo(f, path, target) ==
    LET q == LPath(f, path)
    IN  IF "symlink" \in faulty \/ q = Nowhere \/ Lookup(f, q).kind # "absent"
        THEN [ ok |-> FALSE, fs |-> f ]
        ELSE [ ok |-> TRUE, fs |-> With(f, q, Link(target)) ]

\* os.linesep on the platforms the installer imports on (config.py imports pwd)
LineSep == <<LF>>

RECURSIVE TranslateOnWrite(_)
\* Text mode with newline=None, writing: "\n" becomes os.linesep
TranslateOnWrite(text) ==
    IF text = <<>> THEN <<>>
    ELSE IF Head(text) = LF THEN LineSep \o TranslateOnWrite(Tail(text))
    ELSE <<Head(text)>> \o TranslateOnWrite(Tail(text))

RECURSIVE TranslateOnRead(_)
\* Text mode with newline=None, reading: "\r\n" and "\r" become "\n"
TranslateOnRead(bytes) ==
    IF bytes = <<>> THEN <<>>
    ELSE IF Head(bytes) = CR
         THEN IF Len(bytes) >= 2 /\ bytes[2] = LF
              THEN <<LF>> \o TranslateOnRead(Tail(Tail(bytes)))
              ELSE <<LF>> \o TranslateOnRead(Tail(bytes))
    ELSE <<Head(bytes)>> \o TranslateOnRead(Tail(bytes))

\* Path.read_text of a path for which is_file() holds
ReadText(f, path) == TranslateOnRead(Lookup(f, Resolve(f, path)).content)

\* Path.write_text: open(path, "w") follows symbolic links, creates or truncates the
\* file, and fails on a directory or a missing parent
WriteText(f, path, text) ==
    LET q == Resolve(f, path)
    IN  IF "write" \in faulty \/ q = Nowhere \/ Lookup(f, q).kind = "dir"
        THEN [ ok |-> FALSE, fs |-> f ]
        ELSE [ ok |-> TRUE, fs |-> With(f, q, File(TranslateOnWrite(text))) ]

(***************************************************************************)
(* DotfileManager                                                          *)
(***************************************************************************)
\* DotfileManager.backup_path
backup_path(path) == Append(Front(path), LastOf(path) \o dm.backup_suffix)

\* A faulty variant: a regular file in the way is deleted instead of renamed
cleanup_path_Unlinks(f, path) ==
    IF IsSymlink(f, path) \/ IsFile(f, path)
    THEN LET u == Unlink(f, path)
         IN  [ ok |-> u.ok, fs |-> u.fs, backup |-> Nowhere,
               prims |-> IF u.ok THEN <<"unlink">> ELSE <<>>,
               attempts |-> <<"unlink">> ]
    ELSE [ ok |-> TRUE, fs |-> f, backup |-> Nowhere, prims |-> <<>>, attempts |-> <<>> ]

\* A faulty variant: a symbolic link in the way is backed up like a regular file
cleanup_path_BacksUpLinks(f, path) ==
    IF IsSymlink(f, path) \/ IsFile(f, path)
    THEN LET r == Rename(f, path, backup_path(path))
         IN  [ ok |-> r.ok, fs |-> r.fs,
               backup |-> IF r.ok THEN backup_path(path) ELSE Nowhere,
               prims |-> IF r.ok THEN <<"rename">> ELSE <<>>,
               attempts |-> <<"rename">> ]
    ELSE [ ok |-> TRUE, fs |-> f, backup |-> Nowhere, prims |-> <<>>, attempts |-> <<>> ]

\* DotfileManager.cleanup_path: the file system it leaves, the backup path it
\* returns (Nowhere for None), the operations it attempted and those it performed,
\* and whether it returned.
\* The path.resolve() of the log call at line 57 has no effect; it could only fail
\* on a loop of links, and the links made here point to the sources, which are no
\* links.
cleanup_path(f, path) ==
    IF IsSymlink(f, path)
    THEN LET u == Unlink(f, path)
         IN  [ ok |-> u.ok, fs |-> u.fs, backup |-> Nowhere,
               prims |-> IF u.ok THEN <<"unlink">> ELSE <<>>,
               attempts |-> <<"unlink">> ]
    ELSE IF IsFile(f, path)
    THEN LET r == Rename(f, path, backup_path(path))
         IN  [ ok |-> r.ok, fs |-> r.fs,
               backup |-> IF r.ok THEN backup_path(path) ELSE Nowhere,
               prims |-> IF r.ok THEN <<"rename">> ELSE <<>>,
               attempts |-> <<"rename">> ]
    ELSE [ ok |-> TRUE, fs |-> f, backup |-> Nowhere, prims |-> <<>>, attempts |-> <<>> ]

\* DotfileManager._file_content_matches
file_content_matches(f, text, path) ==
    IsFile(f, path) /\ ReadText(f, path) = text

\* safe_symlink, lines 25-26: the link goes inside an existing directory
FinalDestination(f, source, destination) ==
    IF IsDir(f, destination) THEN Append(destination, LastOf(source)) ELSE destination

\* DotfileManager.safe_symlink
safe_symlink(f, source, destination) ==
    LET final == FinalDestination(f, source, destination)
        c == cleanup_path(f, final)
        s == SymlinkTo(c.fs, final, source)
    IN  IF ~c.ok THEN [ ok |-> FALSE, fs |-> c.fs, final |-> final, prims |-> c.prims,
                        attempts |-> c.attempts ]
        ELSE [ ok |-> s.ok, fs |-> s.fs, final |-> final,
               prims |-> IF s.ok THEN Append(c.prims, "symlink") ELSE c.prims,
               attempts |-> Append(c.attempts, "symlink") ]

\* A faulty variant: a failure of cleanup_path is swallowed and the text is written
safe_write_Swallows(f, text, destination) ==
    IF file_content_matches(f, text, destination)
    THEN [ ok |-> TRUE, fs |-> f, final |-> destination, prims |-> <<>>,
           attempts |-> <<>> ]
    ELSE LET c == cleanup_path(f, destination)
             w == WriteText(c.fs, destination, text)
         IN  [ ok |-> w.ok, fs |-> w.fs, final |-> destination,
               prims |-> IF w.ok THEN Append(c.prims, "write") ELSE c.prims,
               attempts |-> Append(c.attempts, "write") ]

\* DotfileManager.safe_write
safe_write(f, text, destination) ==
    IF file_content_matches(f, text, destination)
    THEN [ ok |-> TRUE, fs |-> f, final |-> destination, prims |-> <<>>,
           attempts |-> <<>> ]
    ELSE LET c == cleanup_path(f, destination)
             w == WriteText(c.fs, destination, text)
         IN  IF ~c.ok
             THEN [ ok |-> FALSE, fs |-> c.fs, final |-> destination, prims |-> c.prims,
                    attempts |-> c.attempts ]
             ELSE [ ok |-> w.ok, fs |-> w.fs, final |-> destination,
                    prims |-> IF w.ok THEN Append(c.prims, "write") ELSE c.prims,
                    attempts |-> Append(c.attempts, "write") ]

(***************************************************************************)
(* A sequence of DotfileManager calls (SpecFS)                             *)
(***************************************************************************)
\* The texts written and the contents of the files found on disk
Texts == { <<>>, <<"x">>, <<"x", LF>>, <<"x", CR, LF>> }
\* The arguments of the calls
Sources == { <<Foo>>, <<Baz>> }
Destinations == { <<Bar>>, <<Bar, Foo>> }

NoCall == [ op |-> "none", text |-> <<>>, source |-> Root, destination |-> Root,
            final |-> Root, ok |-> FALSE, prims |-> <<>>, attempts |-> <<>>,
            result |-> Nowhere ]

\* The file systems the first call may find: the sources are files or directories,
\* the destination is missing, a file, a directory or a link to a source.
InitialFileSystems ==
    { [ x \in {<<Foo>>, <<Baz>>} \cup (IF bar.kind = "absent" THEN {} ELSE {<<Bar>>}) |->
            IF x = <<Foo>> THEN foo ELSE IF x = <<Baz>> THEN baz ELSE bar ] :
        foo \in {File(c) : c \in Texts} \cup {Dir},
        baz \in {File(<<"x">>), Dir},
        bar \in {Absent, Dir, Link(<<Foo>>), Link(<<Baz>>)} \cup {File(c) : c \in Texts} }

StagesIdle ==
    /\ stages = <<>> /\ cfg = NoConfig /\ derived = NoConfig
    /\ proc = "declaring" /\ pc = 0 /\ calls = <<>> /\ reg = NoReg
    /\ log = NoLog
    /\ twin = NoTwin

InitFS ==
    /\ StagesIdle
    /\ fs \in InitialFileSystems
    /\ fs0 = fs
    /\ prev = fs
    /\ dests = {}
    /\ last = NoCall
    /\ nops = 0
    /\ dm = NewManager(Timestamp0)
    /\ faulty = {}

\* One call of a DotfileManager method with result r
Record(op, text, source, destination, r) ==
    /\ fs' = r.fs
    /\ prev' = fs
    /\ dests' = dests \cup (IF LPath(fs, r.final) = Nowhere THEN {} ELSE {LPath(fs, r.final)})
    /\ last' = [ op |-> op, text |-> text, source |-> source, destination |-> destination,
                 final |-> r.final, ok |-> r.ok, prims |-> r.prims,
                 attempts |-> r.attempts, result |-> Nowhere ]
    /\ nops' = nops + 1
    /\ UNCHANGED <<fs0, dm, faulty, stageVars>>

SafeSymlink(source, destination) ==
    /\ nops < MaxOps
    /\ Record("safe_symlink", <<>>, source, destination, safe_symlink(fs, source, destination))

SafeWrite(text, destination) ==
    /\ nops < MaxOps
    /\ Record("safe_write", text, Root, destination, safe_write(fs, text, destination))

NextFS ==
    \/ \E s \in Sources, d \in Destinations : SafeSymlink(s, d)
    \/ \E t \in Texts, d \in Destinations : SafeWrite(t, d)

SpecFS == InitFS /\ [][NextFS]_vars

(***************************************************************************)
(* DotfileManager calls on a system that may refuse an operation (SpecDM)  *)
(***************************************************************************)
\* The paths cleanup_path and backup_path are called with
Paths == Destinations \cup Sources

\* The texts written; what a refused operation leaves does not depend on newlines
PlainTexts == { <<>>, <<"x">> }

\* The file systems the first call may find, the sources being directories or
\* files of one text
PlainFileSystems ==
    { f \in InitialFileSystems : f[<<Foo>>] \in {Dir, File(<<"x">>)} }

\* The manager of one of the runs, on a system that refuses at most one kind of
\* operation
InitDM ==
    /\ StagesIdle
    /\ fs \in PlainFileSystems
    /\ fs0 = fs
    /\ prev = fs
    /\ dests = {}
    /\ last = NoCall
    /\ nops = 0
    /\ dm \in {NewManager(t) : t \in Timestamps}
    /\ faulty \in {{}} \cup {{p} : p \in Prims}

\* dotfile_manager.cleanup_path(path)
CleanupPath(path) ==
    /\ nops < MaxOps
    /\ LET r == cleanup_path(fs, path)
       IN  /\ fs' = r.fs
           /\ last' = [ op |-> "cleanup_path", text |-> <<>>, source |-> Root,
                        destination |-> path, final |-> path, ok |-> r.ok,
                        prims |-> r.prims, attempts |-> r.attempts,
                        result |-> r.backup ]
    /\ prev' = fs
    /\ nops' = nops + 1
    /\ UNCHANGED <<fs0, dests, dm, faulty, stageVars>>

\* dotfile_manager.backup_path(path)
BackupPath(path) ==
    /\ nops < MaxOps
    /\ last' = [ op |-> "backup_path", text |-> <<>>, source |-> Root,
                 destination |-> path, final |-> path, ok |-> TRUE,
                 prims |-> <<>>, attempts |-> <<>>, result |-> backup_path(path) ]
    /\ prev' = fs
    /\ nops' = nops + 1
    /\ UNCHANGED <<fs, fs0, dests, dm, faulty, stageVars>>

NextDM ==
    \/ \E s \in Sources, d \in Destinations : SafeSymlink(s, d)
    \/ \E t \in PlainTexts, d \in Destinations : SafeWrite(t, d)
    \/ \E path \in Paths : CleanupPath(path)
    \/ \E path \in Paths : BackupPath(path)

SpecDM == InitDM /\ [][NextDM]_vars

(***************************************************************************)
(* Claims about Stage.__call__ and a run of the registry (Spec)            *)
(***************************************************************************)
StageIds == 1..Len(stages)
Called(i) == calls[i].ended # "none"

\* C1: a stage whose flag name is in cfg.skipped_stages has, after s(cfg), status
\* SKIPPED and its wrapped function has never been invoked.
C1_SkipListSkips ==
    \A i \in StageIds :
        (Called(i) /\ stages[i].flag_name \in cfg.skipped_stages)
            => (stages[i].status = SKIPPED /\ calls[i].func = 0)

\* A stage named in the skip list has been called.
C1_Witness ==
    \E i \in StageIds : Called(i) /\ stages[i].flag_name \in cfg.skipped_stages

\* C2: when cfg.only_stages is non-empty and does not contain the stage's flag name,
\* after s(cfg) the status is SKIPPED and the wrapped function was not invoked.
C2_OnlyListExcludes ==
    \A i \in StageIds :
        (Called(i) /\ cfg.only_stages # {} /\ stages[i].flag_name \notin cfg.only_stages)
            => (stages[i].status = SKIPPED /\ calls[i].func = 0)

\* A stage that a non-empty only list does not name has been called.
C2_Witness ==
    \E i \in StageIds :
        /\ Called(i)
        /\ cfg.only_stages # {}
        /\ stages[i].flag_name \notin cfg.only_stages

\* C3 as stated: when cfg.only_stages is non-empty and contains the stage's flag
\* name, s(cfg) invokes the wrapped function exactly once, for every stage.
C3_OnlyListRuns_Original ==
    \A i \in StageIds :
        (Called(i) /\ cfg.only_stages # {} /\ stages[i].flag_name \in cfg.only_stages)
            => calls[i].func = 1

\* C3 amended: when cfg.only_stages is non-empty and contains the stage's flag name,
\* the flag name is not in the skip list, the predicate (if any) did not return
\* False and the user (if asked) did not answer no, s(cfg) invokes the wrapped
\* function exactly once; in the remaining cases it does not invoke it at all.
C3_OnlyListRuns ==
    \A i \in StageIds :
        (Called(i) /\ cfg.only_stages # {} /\ stages[i].flag_name \in cfg.only_stages)
            => /\ ( /\ stages[i].flag_name \notin cfg.skipped_stages
                    /\ ~calls[i].predicate_false
                    /\ ~calls[i].declined ) => calls[i].func = 1
               /\ ( \/ stages[i].flag_name \in cfg.skipped_stages
                    \/ calls[i].predicate_false
                    \/ calls[i].declined ) => calls[i].func = 0

\* A selected stage with a predicate and a confirmation, both passed, has run.
C3_Witness ==
    \E i \in StageIds :
        /\ Called(i)
        /\ stages[i].flag_name \in cfg.only_stages
        /\ calls[i].predicate = 1
        /\ calls[i].confirm = 1
        /\ calls[i].func = 1

\* C4: if the wrapped function raises during s(cfg), the status is FAILURE; with
\* abort_on_error the process terminates with exit code 1 (the call does not
\* return), without it s(cfg) returns normally to its caller.
C4_ErrorHandling ==
    \A i \in StageIds :
        calls[i].raised =>
            /\ stages[i].status = FAILURE
            /\ stages[i].abort_on_error => (calls[i].ended = "exited" /\ proc = "exit1")
            /\ ~stages[i].abort_on_error => calls[i].ended = "returned"

\* One stage failed without abort_on_error and returned, a later one failed with it.
C4_Witness ==
    \E i, j \in StageIds :
        /\ calls[i].raised /\ ~stages[i].abort_on_error
        /\ calls[j].raised /\ stages[j].abort_on_error

\* The state part of C5: a failed abort_on_error stage is where the run stopped, and
\* nothing of a later stage has been invoked: its status is still NOT_EXECUTED.
AbortStopsRun ==
    \A i \in StageIds :
        (calls[i].raised /\ stages[i].abort_on_error) =>
            /\ proc = "exit1" /\ pc = i
            /\ \A j \in StageIds : j > i => (stages[j].status = NOT_EXECUTED /\ calls[j] = NoCalls)

\* The step part of C5: the step that ends the process leaves every other stage as
\* it was, and no step follows it.
AbortKeepsOthers ==
    /\ proc' = "exit1" =>
          \A j \in StageIds : j # pc' => (stages'[j] = stages[j] /\ calls'[j] = calls[j])
    /\ proc = "exit1" => UNCHANGED vars

\* C5: in a run over the registered stages, when a stage with abort_on_error fails
\* the run stops there: no later stage's function, predicate or prompt is invoked,
\* every later stage keeps status NOT_EXECUTED, and the stages executed before keep
\* their statuses.
C5_AbortStopsRun == []AbortStopsRun /\ [][AbortKeepsOthers]_vars

\* The first stage failed with abort_on_error while a second one was registered.
C5_Witness ==
    /\ Len(stages) = 2
    /\ calls[1].raised /\ stages[1].abort_on_error
    /\ proc = "exit1"

\* The stage is excluded by the skip list or by the only list.
ExcludedByList(i) ==
    \/ stages[i].flag_name \in cfg.skipped_stages
    \/ cfg.only_stages # {} /\ stages[i].flag_name \notin cfg.only_stages

\* C13 as stated: if a stage has interactive_confirm and cfg.confirm_all_stages is
\* set, s(cfg) never invokes the confirmation prompt and the wrapped function
\* executes.
C13_ConfirmAll_Original ==
    \A i \in StageIds :
        (Called(i) /\ stages[i].interactive_confirm /\ cfg.confirm_all_stages)
            => (calls[i].confirm = 0 /\ calls[i].func = 1)

\* C13 amended: if a stage has interactive_confirm and cfg.confirm_all_stages is
\* set, s(cfg) never invokes the confirmation prompt, and the wrapped function
\* executes (once) unless the stage is excluded by the skip list or the only list or
\* its predicate returned False, in which cases it is not invoked.
C13_ConfirmAll ==
    \A i \in StageIds :
        (Called(i) /\ stages[i].interactive_confirm /\ cfg.confirm_all_stages)
            => /\ calls[i].confirm = 0
               /\ ~(ExcludedByList(i) \/ calls[i].predicate_false) => calls[i].func = 1
               /\ (ExcludedByList(i) \/ calls[i].predicate_false) => calls[i].func = 0

\* A stage with interactive_confirm has run under confirm_all_stages, unasked.
C13_Witness ==
    \E i \in StageIds :
        /\ Called(i) /\ stages[i].interactive_confirm /\ cfg.confirm_all_stages
        /\ calls[i].confirm = 0 /\ calls[i].func = 1

\* The user was asked and did not answer no.
AnsweredYes(i) == calls[i].confirm > 0 /\ ~calls[i].declined

\* C14 as stated: for a stage with interactive_confirm under a Config without
\* confirm_all_stages: when the user answers no the status becomes SKIPPED and the
\* function is not invoked; when the user answers yes the function is invoked and
\* the status becomes SUCCESS; the prompt is asked exactly once per call.
C14_Confirm_Original ==
    \A i \in StageIds :
        (Called(i) /\ stages[i].interactive_confirm /\ ~cfg.confirm_all_stages)
            => /\ calls[i].declined => (stages[i].status = SKIPPED /\ calls[i].func = 0)
               /\ AnsweredYes(i) => (calls[i].func = 1 /\ stages[i].status = SUCCESS)
               /\ calls[i].confirm = 1

\* C14 amended: for a stage with interactive_confirm under a Config without
\* confirm_all_stages: when the user answers no the status becomes SKIPPED and the
\* function is not invoked; when the user answers yes the function is invoked and
\* the status becomes SUCCESS if it returns and FAILURE if it raises; the prompt is
\* asked exactly once per call unless the skip list, the only list or the predicate
\* excluded the stage, in which cases it is not asked.
C14_Confirm ==
    \A i \in StageIds :
        (Called(i) /\ stages[i].interactive_confirm /\ ~cfg.confirm_all_stages)
            => /\ calls[i].declined => (stages[i].status = SKIPPED /\ calls[i].func = 0)
               /\ AnsweredYes(i) =>
                      /\ calls[i].func = 1
                      /\ stages[i].status = IF calls[i].raised THEN FAILURE ELSE SUCCESS
               /\ ~(ExcludedByList(i) \/ calls[i].predicate_false) => calls[i].confirm = 1
               /\ (ExcludedByList(i) \/ calls[i].predicate_false) => calls[i].confirm = 0

\* One stage was declined by the user, another one confirmed and run.
C14_Witness ==
    \E i, j \in StageIds :
        /\ ~cfg.confirm_all_stages
        /\ calls[i].declined /\ stages[i].status = SKIPPED
        /\ AnsweredYes(j) /\ calls[j].func = 1 /\ stages[j].status = SUCCESS

\* C16: the skip conditions are evaluated in the order skip list, only list,
\* predicate, prompt, stopping at the first that holds: the predicate is never
\* evaluated when a list excludes the stage, the prompt is never shown when a list
\* excludes the stage or the predicate returned False, and in each of these cases
\* (and when the user declines) the status is SKIPPED and the function not invoked.
C16_SkipOrder ==
    \A i \in StageIds :
        Called(i) =>
            /\ ExcludedByList(i) =>
                   /\ calls[i].predicate = 0 /\ calls[i].confirm = 0
                   /\ stages[i].status = SKIPPED /\ calls[i].func = 0
            /\ calls[i].predicate_false =>
                   /\ calls[i].confirm = 0
                   /\ stages[i].status = SKIPPED /\ calls[i].func = 0
            /\ calls[i].declined =>
                   /\ calls[i].predicate = (IF stages[i].has_predicate THEN 1 ELSE 0)
                   /\ stages[i].status = SKIPPED /\ calls[i].func = 0

\* A stage with a predicate and a confirmation was excluded by a list, and another
\* one with a confirmation pending was stopped by its predicate.
C16_Witness ==
    \E i, j \in StageIds :
        /\ Called(i) /\ ExcludedByList(i)
        /\ stages[i].has_predicate /\ stages[i].interactive_confirm
        /\ calls[j].predicate_false
        /\ stages[j].interactive_confirm /\ ~cfg.confirm_all_stages

\* The state part of C17: a stage that has not been called has status NOT_EXECUTED.
StatusStartsNotExecuted ==
    \A i \in StageIds : ~Called(i) => stages[i].status = NOT_EXECUTED

\* The step part of C17: a status changes only in the call of its own stage, from
\* NOT_EXECUTED to SKIPPED, SUCCESS or FAILURE, and a stage is called once only.
StatusWrittenOnce ==
    \A i \in StageIds :
        /\ stages'[i].status # stages[i].status =>
               /\ proc = "running" /\ pc = i
               /\ stages[i].status = NOT_EXECUTED
               /\ stages'[i].status \in {SKIPPED, SUCCESS, FAILURE}
        /\ calls'[i] # calls[i] => (pc = i /\ ~Called(i))
        /\ stages[i].status # NOT_EXECUTED => stages'[i].status = stages[i].status

\* C17: every stage's status starts as NOT_EXECUTED, is changed only by the stage's
\* own execution, and within a run moves only from NOT_EXECUTED to SKIPPED, SUCCESS
\* or FAILURE: once set it does not change again and it is written at most once.
C17_StatusLifecycle == []StatusStartsNotExecuted /\ [][StatusWrittenOnce]_vars

\* A run has ended with one stage skipped and one failed.
C17_Witness ==
    /\ proc = "exit0"
    /\ \E i, j \in StageIds : stages[i].status = SKIPPED /\ stages[j].status = FAILURE

\* C18: an error raised inside the wrapped function (a file-system failure out of
\* the DotfileManager, a ToolNotFoundError) is caught in s(cfg) and does not reach
\* the caller as an exception; the status is FAILURE and an error record has been
\* logged, whether the call then ended the process (abort_on_error) or returned.
C18_ErrorsCaught ==
    /\ proc # "traceback"
    /\ \A i \in StageIds :
           calls[i].raised =>
               /\ calls[i].ended \in {"returned", "exited"}
               /\ stages[i].status = FAILURE
               /\ calls[i].error_logs >= 1

\* A ToolNotFoundError has ended the process in a stage with abort_on_error, after
\* an OSError in a stage without it.
C18_Witness ==
    \E i, j \in StageIds :
        /\ calls[i].error = "OSError" /\ calls[i].ended = "returned"
        /\ calls[j].error = "ToolNotFoundError" /\ calls[j].ended = "exited"
        /\ calls[j].error_logs = 1

C30_StatusAgrees ==
    \A i \in StageIds :
        calls[i].ended = "returned" =>
            /\ stages[i].status # NOT_EXECUTED
            /\ calls[i].func <= 1
            /\ stages[i].status = SKIPPED <=> calls[i].func = 0
            /\ stages[i].status = SUCCESS <=> (calls[i].func = 1 /\ ~calls[i].raised)
            /\ stages[i].status = FAILURE <=> (calls[i].func = 1 /\ calls[i].raised)

\* One call has returned after a skip or a success, another one after a failure.
C30_Witness ==
    \E i, j \in StageIds :
        /\ calls[i].ended = "returned" /\ calls[j].ended = "returned"
        /\ stages[i].status \in {SKIPPED, SUCCESS}
        /\ stages[j].status = FAILURE

(***************************************************************************)
(* Claims about a run of default stages (SpecDefaults)                     *)
(***************************************************************************)
RECURSIVE Invocations(_)
\* The invocations of the wrapped functions of the first n stages
Invocations(n) == IF n = 0 THEN 0 ELSE calls[n].func + Invocations(n - 1)

\* No stage has a predicate or a confirmation, and the Config has no only list.
Unrestricted ==
    /\ cfg.only_stages = {}
    /\ \A i \in StageIds : ~stages[i].has_predicate /\ ~stages[i].interactive_confirm

\* The state part of C15
RunInOrder ==
    /\ \A i \in StageIds : stages[i].name = StageNames[i]
    /\ proc \in {"running", "exit0"} => \A i \in StageIds : Called(i) <=> i < pc
    /\ proc = "exit0" => \A i \in StageIds : Called(i)
    /\ Unrestricted =>
           /\ \A i \in StageIds :
                  (Called(i) /\ ~calls[i].raised) =>
                      stages[i].status = IF stages[i].flag_name \in cfg.skipped_stages
                                         THEN SKIPPED ELSE SUCCESS
           /\ proc = "exit0" =>
                  Invocations(Len(stages)) =
                      Cardinality({i \in StageIds :
                                      stages[i].flag_name \notin cfg.skipped_stages})

\* The step part of C15: a step calls one stage, the next one, which was not called.
RunOneAtATime ==
    \A i, j \in StageIds :
        /\ calls'[i] # calls[i] => (proc = "running" /\ pc = i /\ ~Called(i))
        /\ (calls'[i] # calls[i] /\ calls'[j] # calls[j]) => i = j

\* C15: a run executes the stages in registration order, one at a time, each once;
\* with stages that have no predicate and no confirmation and whose functions do
\* not fail, under a skip list S, the i-th registered stage ends SKIPPED if its flag
\* name is in S and SUCCESS otherwise, and the functions are invoked as often as
\* there are stages not in S.
C15_RunInOrder == []RunInOrder /\ [][RunOneAtATime]_vars

\* A, B, C under the skip list {b}: [SUCCESS, SKIPPED, SUCCESS] and two invocations.
C15_Witness ==
    /\ proc = "exit0"
    /\ Len(stages) = 3
    /\ cfg.skipped_stages = {<<"b">>} /\ cfg.only_stages = {}
    /\ stages[1].status = SUCCESS /\ stages[2].status = SKIPPED
    /\ stages[3].status = SUCCESS
    /\ Invocations(3) = 2

(***************************************************************************)
(* Claims about Config (SpecConfig)                                        *)
(***************************************************************************)
\* The state part of C20: the Config with_email returned has the fields of the
\* original but for email, and not both of its lists are non-empty.
DerivedDiffersInEmailOnly ==
    derived # NoConfig =>
        /\ derived = [cfg EXCEPT !.email = derived.email]
        /\ derived.email \in Emails
        /\ ~(derived.skipped_stages # {} /\ derived.only_stages # {})

\* The step part of C20: no step changes a Config that has been created.
NeverMutated ==
    cfg # NoConfig => cfg' = cfg

\* C20: a Config is never mutated after creation; with_email returns a new Config
\* that differs from the original in email only, leaves the original unchanged and
\* still has at most one of the two lists non-empty.
C20_WithEmail == []DerivedDiffersInEmailOnly /\ [][NeverMutated]_vars

\* with_email has replaced the email of a Config that has a skip list.
C20_Witness ==
    /\ derived # NoConfig
    /\ derived.email # cfg.email
    /\ cfg.email # None
    /\ cfg.skipped_stages # {}

(***************************************************************************)
(* Claims about the DotfileManager (SpecFS)                                *)
(***************************************************************************)
\* The node of the entry a path names, symbolic links in its last component not followed
NodeAt(f, path) ==
    IF LPath(f, path) = Nowhere THEN Absent ELSE Lookup(f, LPath(f, path))

RegularFileAt(f, path) == NodeAt(f, path).kind = "file"

HoldsBytes(f, path, bytes) ==
    RegularFileAt(f, path) /\ NodeAt(f, path).content = bytes

\* C6: after any sequence of safe_symlink and safe_write calls, the content of every
\* regular file that was at a destination path before the sequence is still on disk,
\* at that path or at its backup path.
C6_NoContentLost ==
    \A d \in dests :
        Lookup(fs0, d).kind = "file" =>
            \/ HoldsBytes(fs, d, fs0[d].content)
            \/ HoldsBytes(fs, backup_path(d), fs0[d].content)

\* C7: safe_write(text, destination) on an existing regular file whose content
\* differs from text returns with destination holding exactly text and a regular
\* file at backup_path(destination) holding exactly the previous content.
C7_WriteReplacesAndBacksUp ==
    ( /\ last.op = "safe_write" /\ last.ok
      /\ RegularFileAt(prev, last.destination)
      /\ NodeAt(prev, last.destination).content # TranslateOnWrite(last.text) )
    => /\ HoldsBytes(fs, last.destination, TranslateOnWrite(last.text))
       /\ HoldsBytes(fs, backup_path(last.destination),
                     NodeAt(prev, last.destination).content)

\* A step that repeats the safe_write(text, p) that has just returned performs no
\* rename, unlink or write and leaves the file system as it was.
SecondWriteIsNoOp ==
    ( /\ last.op = "safe_write" /\ last.ok
      /\ nops' = nops + 1
      /\ last'.op = "safe_write"
      /\ last'.text = last.text
      /\ last'.destination = last.destination )
    => (last'.ok /\ last'.prims = <<>> /\ fs' = fs)

\* C8: safe_write is idempotent: a safe_write(text, p) that directly follows a
\* safe_write(text, p) with the same text is a true no-op: no rename, unlink or
\* write, no backup file, and p's content left exactly as after the first call.
C8_WriteIdempotent == [][SecondWriteIsNoOp]_vars

C10_RelinkInPlace ==
    ( /\ last.op = "safe_symlink" /\ last.ok
      /\ NodeAt(prev, last.destination).kind = "link" )
    => /\ NodeAt(fs, last.destination).kind = "link"
       /\ NodeAt(fs, last.destination).target = last.source
       /\ last.prims = <<"unlink", "symlink">>
       /\ NodeAt(fs, backup_path(last.destination)) = NodeAt(prev, backup_path(last.destination))

\* A step that repeats the safe_symlink(source, destination) that has just returned
\* leaves every path, link target and backup file as the first call left them.
SecondSymlinkSameState ==
    ( /\ last.op = "safe_symlink" /\ last.ok
      /\ nops' = nops + 1
      /\ last'.op = "safe_symlink"
      /\ last'.source = last.source
      /\ last'.destination = last.destination )
    => (last'.ok /\ fs' = fs)

\* C11: safe_symlink is idempotent across repeated runs: for every source (file or
\* directory) and destination, a second call with the same arguments leaves the same
\* set of paths, link targets and backup files as the first, with no additional link
\* and no additional backup.
C11_SymlinkIdempotent == [][SecondSymlinkSameState]_vars

\* C12: safe_write(text, destination) on a destination that is a symbolic link
\* removes the link and writes text into a new regular file there: afterwards the
\* destination is a regular file holding text, not a link, and the entry the link
\* pointed to is neither modified nor deleted.
C12_WriteReplacesLink ==
    ( /\ last.op = "safe_write" /\ last.ok
      /\ NodeAt(prev, last.destination).kind = "link" )
    => /\ HoldsBytes(fs, last.destination, TranslateOnWrite(last.text))
       /\ LET target == NodeAt(prev, last.destination).target
          IN  NodeAt(fs, target) = NodeAt(prev, target)

(***************************************************************************)
(* Claims checked under SpecRegistry                                       *)
(***************************************************************************)

\* The condition the claims put on a stage and the platform of the process
Applicable(s) == s.platforms = {} \/ reg.system \in s.platforms

\* The stage object s is an entry of the registry r (objects are told apart by
\* the function they wrap)
Registered(r, s) == \E i \in 1..Len(r) : r[i].func_name = s.func_name

\* Only applicable stages are registered, so only they are iterated and called
OnlyApplicableRegistered ==
    /\ \A i \in 1..Len(stages) : Applicable(stages[i])
    /\ \A k \in 1..Len(reg.declared) :
           ~Applicable(reg.declared[k]) => ~Registered(stages, reg.declared[k])

\* A declaration adds the stage under its flag name exactly when it is applicable,
\* and otherwise leaves the registry and the process as they are
RegisteredIffApplicable ==
    Len(reg'.declared) = Len(reg.declared) + 1 =>
        LET s == reg'.declared[Len(reg'.declared)]
        IN  /\ proc' = proc
            /\ IF Applicable(s)
               THEN \E i \in 1..Len(stages') :
                        /\ stages'[i].flag_name = s.flag_name
                        /\ stages'[i] = s
               ELSE /\ stages' = stages
                    /\ calls' = calls

\* C21: every stage in the registry has no platform restriction or one that
\* contains the current platform; register adds a stage under its flag name
\* exactly when that holds and otherwise drops it without an error, so a stage
\* that is not applicable is never iterated and never executed.
C21_OnlyApplicable == []OnlyApplicableRegistered /\ [][RegisteredIffApplicable]_vars

\* A stage that is not for this platform was declared, and the run of the
\* registered stages has ended.
C21_Witness ==
    /\ proc = "exit0"
    /\ Len(stages) >= 1
    /\ \E k \in 1..Len(reg.declared) : ~Applicable(reg.declared[k])

\* C26: a registered stage stays in the registry for the rest of the run: no
\* operation other than clear() removes or replaces an entry, the registration
\* of further stages included.
C26_EntriesStay ==
    [][reg'.clears = reg.clears =>
          \A i \in 1..Len(stages) : Registered(stages', stages[i])]_vars

\* C28: the flag name is the stage name in lowercase with every space replaced by
\* '-' and every '.' removed, and two distinct declared names never have the same
\* flag name.
C28_FlagNamesDistinct ==
    \A i, j \in 1..Len(reg.declared) :
        /\ reg.declared[i].flag_name = FlagName(reg.declared[i].name)
        /\ reg.declared[i].name # reg.declared[j].name
               => reg.declared[i].flag_name # reg.declared[j].flag_name

(***************************************************************************)
(* Claims checked under SpecDeps                                           *)
(***************************************************************************)

\* What an entry resolves to by the rule of the claim: a string by the flag names
\* first and by the names of the wrapped functions then, a Stage to itself
ResolvesTo(registry, entry) ==
    IF entry.type = "Stage" THEN <<entry.value>>
    ELSE IF \E i \in 1..Len(registry) : registry[i].flag_name = entry.value
    THEN <<registry[CHOOSE i \in 1..Len(registry) :
                        registry[i].flag_name = entry.value].name>>
    ELSE IF \E i \in 1..Len(registry) : registry[i].func_name = entry.value
    THEN <<registry[CHOOSE i \in 1..Len(registry) :
                        registry[i].func_name = entry.value].name>>
    ELSE <<>>

\* The resolvable entries of a list, in declaration order
RECURSIVE Resolvable(_, _)
Resolvable(registry, entries) ==
    IF entries = <<>> THEN <<>>
    ELSE ResolvesTo(registry, Head(entries)) \o Resolvable(registry, Tail(entries))

\* A step is a call of resolve_dependencies
ResolveStep == reg'.resolves = reg.resolves + 1

\* C23: resolve_dependencies looks a string entry up among the flag names and then
\* among the names of the wrapped functions and appends the stage found, appends a
\* Stage entry as it is, and warns about and drops an entry it does not find:
\* after the call the resolved list holds the resolvable entries in declaration
\* order.
C23_Resolved ==
    [][ResolveStep =>
           \A i \in 1..Len(stages) :
               /\ i <= Len(stages')
               /\ stages'[i].resolved_dependencies =
                      stages[i].resolved_dependencies
                          \o Resolvable(stages, stages[i].raw_dependencies)]_vars

\* resolve_dependencies changes nothing but the lists of resolved dependencies
ResolveIsBookkeeping ==
    ResolveStep =>
        /\ Len(stages') = Len(stages)
        /\ \A i \in 1..Len(stages) :
               [stages'[i] EXCEPT !.resolved_dependencies =
                                      stages[i].resolved_dependencies] = stages[i]
        /\ calls' = calls /\ pc' = pc /\ proc' = proc /\ cfg' = cfg

\* The stages are called in registration order, and being skipped or executed is
\* decided by the lists of the Config alone (the stages of SpecDeps have no
\* predicate and no confirmation)
RunsRegardless ==
    /\ \A i \in StageIds : stages[i].name = StageNames[i]
    /\ proc \in {"running", "exit0"} => \A i \in StageIds : Called(i) <=> i < pc
    /\ \A i \in StageIds :
           /\ ~Called(i) => stages[i].status = NOT_EXECUTED
           /\ Called(i) =>
                  /\ calls[i].func = IF ExcludedByList(i) THEN 0 ELSE 1
                  /\ stages[i].status = IF ExcludedByList(i) THEN SKIPPED
                                        ELSE IF calls[i].raised THEN FAILURE
                                        ELSE SUCCESS

\* C24: dependencies never affect execution: resolve_dependencies leaves the
\* registry's contents, its order and every status as they are, and whether a
\* stage is skipped or executed depends neither on its dependencies nor on their
\* statuses, so the stages run in registration order.
C24_DependenciesInert == []RunsRegardless /\ [][ResolveIsBookkeeping]_vars

\* The second stage names the first one as a dependency, the dependencies were
\* resolved, the first stage failed or was skipped, and the second one succeeded.
C24_Witness ==
    /\ reg.resolves = 1
    /\ Len(stages) >= 2
    /\ StageObj(stages[1].name) \in {stages[2].raw_dependencies[k] :
                                         k \in DOMAIN stages[2].raw_dependencies}
    /\ stages[1].status \in {FAILURE, SKIPPED}
    /\ stages[2].status = SUCCESS

(***************************************************************************)
(* Claims checked under SpecDM                                             *)
(***************************************************************************)

\* The file system after the operations a call performed, applied to f in order
RECURSIVE Effect(_, _, _)
Effect(f, call, prims) ==
    IF prims = <<>> THEN f
    ELSE LET q == LPath(f, call.final)
             g == CASE Head(prims) = "unlink" -> Without(f, q)
                    [] Head(prims) = "rename" ->
                           With(Without(f, q), LPath(f, backup_path(call.final)),
                                Lookup(f, q))
                    [] Head(prims) = "symlink" -> With(f, q, Link(call.source))
                    [] Head(prims) = "write" ->
                           With(f, Resolve(f, call.final),
                                File(TranslateOnWrite(call.text)))
         IN  Effect(g, call, Tail(prims))

\* C22: no method of the manager retries or swallows a failure: when an unlink, a
\* rename, a symlink or a write fails, the method ends with the failure raised,
\* performs no further file operation and undoes nothing of what it has done.
C22_FailuresPropagate ==
    last.op \in {"safe_symlink", "safe_write", "cleanup_path"} =>
        /\ last.ok <=> last.attempts = last.prims
        /\ ~last.ok => \E x \in Prims : last.attempts = Append(last.prims, x)
        /\ fs = Effect(prev, last, last.prims)

\* safe_write has renamed the destination to its backup path and the write was
\* refused: the call has failed, the backup holds the old content and the
\* destination is missing.
C22_Witness ==
    /\ last.op = "safe_write" /\ ~last.ok
    /\ last.attempts = <<"rename", "write">>
    /\ RegularFileAt(prev, last.destination)
    /\ HoldsBytes(fs, backup_path(last.destination), NodeAt(prev, last.destination).content)
    /\ NodeAt(fs, last.destination).kind = "absent"

\* C25: cleanup_path(path) that returns has unlinked a symbolic link at the path,
\* leaving its target alone and making no backup; has renamed a regular file at
\* the path to backup_path(path) and returns that path; and has done nothing in
\* every other case.
C25_CleanupCases ==
    (last.op = "cleanup_path" /\ last.ok) =>
        LET path == last.destination
            node == NodeAt(prev, path)
        IN  IF node.kind = "link"
            THEN /\ fs = Without(prev, LPath(prev, path))
                 /\ last.result = Nowhere
                 /\ last.prims = <<"unlink">>
            ELSE IF node.kind = "file"
            THEN /\ NodeAt(fs, path).kind = "absent"
                 /\ NodeAt(fs, backup_path(path)) = node
                 /\ \A q \in DOMAIN prev \ {LPath(prev, path), LPath(prev, backup_path(path))} :
                        q \in DOMAIN fs /\ fs[q] = prev[q]
                 /\ last.result = backup_path(path)
                 /\ last.prims = <<"rename">>
            ELSE /\ fs = prev
                 /\ last.result = Nowhere
                 /\ last.prims = <<>>

\* cleanup_path has returned from a link to a directory, the directory is there;
\* or it has returned the backup path of a regular file.
C25_Witness ==
    /\ last.op = "cleanup_path" /\ last.ok
    /\ \/ /\ NodeAt(prev, last.destination).kind = "link"
          /\ NodeAt(fs, NodeAt(prev, last.destination).target).kind = "dir"
       \/ /\ NodeAt(prev, last.destination).kind = "file"
          /\ last.result # Nowhere

\* The value of a decimal digit
DigitValue(token) == CHOOSE d \in 0..9 : Digit(d) = token

\* The tokens from..to of a text are decimal digits
AllDigits(text, from, to) ==
    \A k \in from..to : \E d \in 0..9 : Digit(d) = text[k]

\* The number the digits from..to of a text spell
RECURSIVE Number(_, _, _)
Number(text, from, to) ==
    IF to < from THEN 0
    ELSE 10 * Number(text, from, to - 1) + DigitValue(text[to])

\* The tokens from..to of a text spell the number n
Spells(text, from, to, n) == AllDigits(text, from, to) /\ Number(text, from, to) = n

\* '.pre-dotfiles-installer-' and YYYY-MM-DD_HH-MM-SS of the timestamp
SuffixOfTimestamp(suffix, t) ==
    /\ Len(suffix) = 20
    /\ suffix[1] = ".pre-dotfiles-installer-"
    /\ Spells(suffix, 2, 5, t.year)
    /\ suffix[6] = "-"
    /\ Spells(suffix, 7, 8, t.month)
    /\ suffix[9] = "-"
    /\ Spells(suffix, 10, 11, t.day)
    /\ suffix[12] = "_"
    /\ Spells(suffix, 13, 14, t.hour)
    /\ suffix[15] = "-"
    /\ Spells(suffix, 16, 17, t.minute)
    /\ suffix[18] = "-"
    /\ Spells(suffix, 19, 20, t.second)

\* backup_path touches no file and returns the sibling named name + suffix
BackupPathIsSibling ==
    last.op = "backup_path" =>
        /\ fs = prev
        /\ Len(last.result) = Len(last.destination)
        /\ Front(last.result) = Front(last.destination)
        /\ LastOf(last.result) = LastOf(last.destination) \o dm.backup_suffix

\* C29: backup_path(path) is a pure function that touches no file and returns the
\* path of the same parent whose name is the name of path followed by the backup
\* suffix; the suffix is fixed when the manager is constructed, as
\* '.pre-dotfiles-installer-<YYYY-MM-DD_HH-MM-SS>' of the run's timestamp, and
\* never changes.
C29_BackupPath ==
    /\ [](SuffixOfTimestamp(dm.backup_suffix, dm.timestamp) /\ BackupPathIsSibling)
    /\ [][dm' = dm]_vars

\* backup_path was called after a call that changed the file system, by a manager
\* whose timestamp has one-digit fields.
C29_Witness ==
    /\ last.op = "backup_path"
    /\ fs # fs0
    /\ dm.timestamp.month < 10 /\ dm.timestamp.second < 10

(***************************************************************************)
(* Claims checked under SpecLog                                            *)
(***************************************************************************)

\* While no body runs, every handler has the format it had at the start
RestoredOutside == log.frames = <<>> => log.handlers = log.initial

\* A step that leaves bodies puts back the formats of the moment before the
\* outermost of them started
RestoredOnLeave ==
    Len(log'.frames) < Len(log.frames) =>
        log'.handlers = log.frames[Len(log'.frames) + 1]

\* C27: the indentation of the log is in force only while a stage body runs: when
\* the body has been left, by a return, by a failure or on the way to the exit of
\* an aborting stage, every handler's format is what it was before the body
\* started, also for bodies run one after another or inside one another.
C27_IndentScoped == []RestoredOutside /\ [][RestoredOnLeave]_vars

\* With the handlers of configure_logging, a body ran inside another one, one body
\* returned, and an aborting stage has ended the process.
C27_Witness ==
    /\ log.exited
    /\ log.nested
    /\ \E h \in DOMAIN log.handlers : HasFormat(log.handlers[h])
    /\ \E k \in DOMAIN log.finished : log.finished[k] = "return"

(***************************************************************************)
(* Claims checked under SpecModules                                        *)
(***************************************************************************)

\* C32: the Stage.__call__ of installer/stage.py invokes the wrapped function in
\* the same cases and as many times as the one of installer/stages.py, and lets
\* an exception escape to the caller in the same cases, for every stage policy,
\* every Config and every behaviour of the function.
C32_ModulesAgree ==
    \A i \in DOMAIN twin.results :
        /\ twin.results[i].func = calls[i].func
        /\ twin.results[i].propagates <=> calls[i].ended = "propagated"

(***************************************************************************)
(* Claims checked under SpecPlatform                                       *)
(***************************************************************************)

\* Two Configs that are equal in every field but, possibly, the platform
DifferInPlatformOnly(c, d) ==
    /\ c.made /\ d.made
    /\ c.email = d.email
    /\ c.confirm_all_stages = d.confirm_all_stages
    /\ c.skipped_stages = d.skipped_stages
    /\ c.only_stages = d.only_stages

\* Every call made so far has, under the other Config, left the same status,
\* invoked the function, the predicate and the prompt as often and ended the same
\* way
SameUnderBothConfigs ==
    DifferInPlatformOnly(cfg, twin.cfg) =>
        \A i \in DOMAIN twin.results :
            /\ twin.results[i].status = stages[i].status
            /\ twin.results[i].func = calls[i].func
            /\ twin.results[i].predicate = calls[i].predicate
            /\ twin.results[i].confirm = calls[i].confirm
            /\ twin.results[i].exits <=> calls[i].ended = "exited"
            /\ twin.results[i].propagates <=> calls[i].ended = "propagated"

\* The registry is what the declarations and the host platform made it: a step
\* that makes or changes a Config leaves it alone
ConfigLeavesRegistry ==
    (cfg' # cfg \/ twin'.cfg # twin.cfg) => (stages' = stages /\ reg' = reg)

\* C31: whether a stage applies to the platform is decided from the host platform
\* when it is registered; the platform field of the Config has no part in a stage
\* being registered, skipped or executed, so two Configs that differ in platform
\* only lead to the same statuses and the same invocations.
C31_PlatformFieldInert == []SameUnderBothConfigs /\ [][ConfigLeavesRegistry]_vars

\* A run has ended under two Configs with different platforms; a stage restricted
\* to the host platform was executed and another stage was skipped.
C31_Witness ==
    /\ proc = "exit0"
    /\ cfg.made /\ cfg.platform # twin.cfg.platform
    /\ Len(twin.results) = Len(stages)
    /\ \E i, j \in StageIds :
           /\ stages[i].platforms # {} /\ stages[i].status = SUCCESS
           /\ stages[j].status = SKIPPED

====
